---- MODULE Spec2Model ----
(***************************************************************************)
(* Bookomol: the processing pipeline of one book (one job).                *)
(*                                                                         *)
(* The Telegram bot creates the book record, uploads the original PDF and  *)
(* starts processing; the S3 object-created notification invokes the       *)
(* pdf-processor Lambda; the processing queue invokes the queue-processor  *)
(* Lambda, one invocation per message, several invocations concurrently.   *)
(* Every DynamoDB Get/Update is one atomic step; work that touches only    *)
(* the invocation's own memory, and the receipt or the sending of a queue  *)
(* message, is folded into the neighbouring database step.                 *)
(***************************************************************************)
EXTENDS Integers, Sequences, FiniteSets, Bags, TLC

\* ---------------------------------------------------------------- bounds
\* concurrent invocations of the queue-processor Lambda
NumWorkers == 2
\* deliveries of one processing message before SQS gives it up
MaxReceive == 2
\* pages of the uploaded PDF
TotalPages == 5
\* calls of gemini.condenseChapter that fail in one run of the pipeline
MaxAiFailures == 1
\* concurrent POST /api/books requests of one user
NumRequests == 3
\* hours of the bot's clock after the first update
NumHours == 2
\* books one user uploads to the bot
MaxBooks == 2
\* records in the Sessions table
MaxSessions == 2
\* book ids the requests of the web API name
NumBookIds == 2

Workers == 1..NumWorkers
\* the pdf-processor Lambda invoked by the S3 notification
S3Proc == 0
Procs == Workers \cup {S3Proc}

\* ---------------------------------------------------------------- values
NoError == <<>>
NoUrl == <<>>
NoMsg == [action |-> "none", chapterId |-> 0, receives |-> 0]

Max(a, b) == IF a >= b THEN a ELSE b
Min(a, b) == IF a <= b THEN a ELSE b

\* Math.round(num / den) for num >= 0, den > 0: halves round up
RoundDiv(num, den) == (2 * num + den) \div (2 * den)

\* JavaScript a || b on an optional boolean a
JsOr(a, b) == IF a THEN a ELSE b

\* -------------------------------------------------- the uploaded document
\* a Buffer: its leading bytes (the whole buffer when it is shorter than
\* that) and its length in bytes
Buffer(bytes, length) == [bytes |-> bytes, length |-> length]

PdfMagic == <<"%", "P", "D", "F">>
\* "Check minimum size (1KB)" and "Check maximum size (100MB)"
MinPdfSize == 1024
MaxPdfSize == 100 * 1024 * 1024

\* buffer.slice(start, end) and header.startsWith(prefix)
Slice(bytes, start, end) == SubSeq(bytes, start + 1, Min(end, Len(bytes)))
StartsWith(str, prefix) ==
  Len(str) >= Len(prefix) /\ SubSeq(str, 1, Len(prefix)) = prefix

\* PdfProcessor.validatePdf whose size test is buffer.length <= 1024
ValidatePdfOffByOne(buffer) ==
  IF ~StartsWith(Slice(buffer.bytes, 0, 4), PdfMagic)
    THEN [isValid |-> FALSE, error |-> "File does not appear to be a valid PDF"]
  ELSE IF buffer.length <= MinPdfSize
    THEN [isValid |-> FALSE, error |-> "File is too small to be a valid PDF"]
  ELSE IF buffer.length > MaxPdfSize
    THEN [isValid |-> FALSE, error |-> "File is too large (maximum 100MB allowed)"]
  ELSE [isValid |-> TRUE, error |-> ""]

\* PdfProcessor.validatePdf
ValidatePdf(buffer) ==
  IF ~StartsWith(Slice(buffer.bytes, 0, 4), PdfMagic)
    THEN [isValid |-> FALSE, error |-> "File does not appear to be a valid PDF"]
  ELSE IF buffer.length < MinPdfSize
    THEN [isValid |-> FALSE, error |-> "File is too small to be a valid PDF"]
  ELSE IF buffer.length > MaxPdfSize
    THEN [isValid |-> FALSE, error |-> "File is too large (maximum 100MB allowed)"]
  ELSE [isValid |-> TRUE, error |-> ""]

\* leading bytes and lengths of the documents sent to the bot (the bot's own
\* size test reads Telegram's optional file_size, so it does not bound them)
Heads ==
  {PdfMagic \o <<"-">>, <<"%", "P", "D", "X", "-">>, <<"X", "%", "P", "D", "F">>}
Lengths ==
  {MinPdfSize - 1, MinPdfSize, MinPdfSize + 1,
   MaxPdfSize - 1, MaxPdfSize, MaxPdfSize + 1}
Documents ==
  {Buffer(h, n) : h \in Heads, n \in Lengths}
    \cup {Buffer(<<>>, 0), Buffer(<<"%", "P", "D">>, 3), Buffer(PdfMagic, 4)}

\* the documents of the pipeline's runs: the smallest PDF validatePdf
\* accepts, and one it rejects
SmallestPdf == Buffer(PdfMagic \o <<"-">>, MinPdfSize)
PipelineDocuments == {SmallestPdf, Buffer(PdfMagic \o <<"-">>, MinPdfSize - 1)}

\* ------------------------------------------------------ the book's title
\* params.fileName without its extension, and `Book ${bookId}`
FileTitle == "file"
DefaultTitle == "Book id"
NoTitle == ""

\* the AI's answer to the metadata prompt, as extractBookMetadata sees it:
\* generateContent throws, or the text has no {...}, or JSON.parse throws on
\* it, or it parses to an object with or without a title
MetaResponse(throws, hasJson, parses, title) ==
  [throws |-> throws, hasJson |-> hasJson, parses |-> parses, title |-> title]
MetaThrows == MetaResponse(TRUE, FALSE, FALSE, NoTitle)
MetaNoJson == MetaResponse(FALSE, FALSE, FALSE, NoTitle)
MetaUnparsable == MetaResponse(FALSE, TRUE, FALSE, NoTitle)
MetaUntitled == MetaResponse(FALSE, TRUE, TRUE, NoTitle)
MetaTitled == MetaResponse(FALSE, TRUE, TRUE, "AI title")
MetaResponses == {MetaThrows, MetaNoJson, MetaUnparsable, MetaUntitled, MetaTitled}

\* what a call returns: it threw, or the metadata object
Returned(title) == [thrown |-> FALSE, title |-> title]
Thrown == [thrown |-> TRUE, title |-> NoTitle]

\* GeminiClient.extractBookMetadata without its try/catch
ExtractBookMetadataUncaught(resp) ==
  IF resp.throws THEN Thrown
  ELSE IF ~resp.hasJson THEN Returned(NoTitle)
  ELSE IF ~resp.parses THEN Thrown
  ELSE Returned(resp.title)

\* GeminiClient.extractBookMetadata: every error is caught and answered by {}
ExtractBookMetadata(resp) ==
  IF resp.throws THEN Returned(NoTitle)
  ELSE IF ~resp.hasJson THEN Returned(NoTitle)
  ELSE IF ~resp.parses THEN Returned(NoTitle)
  ELSE Returned(resp.title)

\* JavaScript a || b on strings: the empty (or missing) string is falsy
JsOrStr(a, b) == IF a # "" THEN a ELSE b

\* ------------------------------------------------- the AI's segmentation
\* text of the AI's answer to the segmentation prompt, as identifyChapters
\* sees it: either no JSON array in it, or the parsed array
ChapterInfo(s, e, ess) == [startPage |-> s, endPage |-> e, isEssential |-> ess]

RespMalformed == [hasJson |-> FALSE, chapters |-> <<>>]
RespEmpty == [hasJson |-> TRUE, chapters |-> <<>>]
\* an essential chapter and a non-essential one
RespPair == [hasJson |-> TRUE,
             chapters |-> <<ChapterInfo(1, 4, TRUE), ChapterInfo(5, 5, FALSE)>>]
\* imprecise spans: one starts before the first page, one is empty (1..0)
RespBad == [hasJson |-> TRUE,
            chapters |-> <<ChapterInfo(0, 3, TRUE), ChapterInfo(1, 0, TRUE)>>]
\* the book of the three-chapter scenario: essential = [true, false, true]
RespThree == [hasJson |-> TRUE,
              chapters |-> <<ChapterInfo(1, 2, TRUE), ChapterInfo(3, 3, FALSE),
                             ChapterInfo(4, 5, TRUE)>>]
AIResponses == {RespMalformed, RespEmpty, RespPair, RespBad}

\* BookService.processChapters: chaptersInfo.map(...)
ToChapter(info, index) ==
  [chapterId |-> index,
   pageStart |-> info.startPage,
   pageEnd |-> info.endPage,
   isEssential |-> JsOr(info.isEssential, TRUE),
   status |-> IF info.isEssential THEN "pending" ELSE "skipped",
   condensedUrl |-> NoUrl]

ToChapters(infos) == [i \in 1..Len(infos) |-> ToChapter(infos[i], i)]

\* PdfProcessor.extractChapter: the clamped range is not empty
ClampedStart(ch) == Max(1, ch.pageStart)
ClampedEnd(ch) == Min(TotalPages, ch.pageEnd)
PageRangeValid(ch) == ClampedStart(ch) <= ClampedEnd(ch)

\* PdfProcessor.extractChapter copying the 1-based page numbers
ExtractChapterOneBased(ch) ==
  IF ~PageRangeValid(ch)
    THEN [ok |-> FALSE, pages |-> <<>>]
    ELSE [ok |-> TRUE,
          pages |-> [i \in 1..(ClampedEnd(ch) - ClampedStart(ch) + 1) |->
                       ClampedStart(ch) + (i - 1)]]

\* PdfProcessor.extractChapter: the 0-based page indices copied, or the
\* "Invalid page range" error ((_, i) of Array.from is i - 1 here)
ExtractChapter(ch) ==
  IF ~PageRangeValid(ch)
    THEN [ok |-> FALSE, pages |-> <<>>]
    ELSE [ok |-> TRUE,
          pages |-> [i \in 1..(ClampedEnd(ch) - ClampedStart(ch) + 1) |->
                       ClampedStart(ch) - 1 + (i - 1)]]

\* ---------------------------------------------------------- notifications
\* ProgressMessage on the progress queue
ProgressMessage(progress, status, currentStep) ==
  [progress |-> progress, status |-> status, currentStep |-> currentStep]

\* the message markFailed sends, and the one combineCondensedChapters sends
FailedMessage(errorMessage) ==
  ProgressMessage(0, "failed", <<"Processing failed", errorMessage>>)
CompletedMessage ==
  ProgressMessage(100, "completed",
                  <<"Your condensed book is ready! Click below to download.">>)

Button(text, url) == [text |-> text, url |-> url]

\* progress-handler's getBookDetails: "return null"
GetBookDetails == [found |-> FALSE, downloadUrl |-> NoUrl]

\* progress-handler: the text and the reply markup edited into the chat
ProgressHandler(m) ==
  IF m.status = "completed"
    THEN [status |-> m.status, progress |-> m.progress, text |-> m.currentStep,
          buttons |-> IF GetBookDetails.found /\ GetBookDetails.downloadUrl # NoUrl
                        THEN <<Button("Download Condensed Book",
                                      GetBookDetails.downloadUrl),
                               Button("Process Another Book", NoUrl)>>
                        ELSE <<>>]
  ELSE IF m.status = "failed"
    THEN [status |-> m.status, progress |-> m.progress, text |-> m.currentStep,
          buttons |-> <<Button("Try Again", NoUrl),
                        Button("Contact Support", <<"https://t.me/bookomol_support">>)>>]
  ELSE [status |-> m.status, progress |-> m.progress,
        text |-> <<m.currentStep, m.progress>>,
        buttons |-> IF m.progress > 0 /\ m.progress < 100
                      THEN <<Button("Cancel Processing", NoUrl)>>
                      ELSE <<>>]

NoNotice == [status |-> "none", progress |-> 0, text |-> <<>>, buttons |-> <<>>]
NewChat == [notice |-> NoNotice, cancelled |-> FALSE]

\* sqs.sendProgressMessage and the progress handler's delivery of it (the
\* handler reads nothing of the job, so its run is folded into the send)
Notify(c, m) == [c EXCEPT !.notice = ProgressHandler(m)]

\* ---------------------------------------------------------------- web API
\* "3 books per day"
DailyQuota == 3
Requests == 1..NumRequests

\* no reply of a per-book route yet
NoResponse == [seq |-> 0, route |-> "none", caller |-> "", id |-> 0,
               code |-> 0, body |-> <<>>, published |-> 0]

\* the user's record with dailyUsageCount = used, no book record yet, every
\* request at position at, an empty book table and no reply
Api(used, at) ==
  [dailyUsageCount |-> used, books |-> 0, req |-> [r \in Requests |-> at],
   table |-> {}, response |-> NoResponse]
ApiIdle == Api(0, "none")

\* ---------------------------------------------------- the bot's sessions
\* sessionExpiryTime, "1 hour", in milliseconds
SessionExpiryTime == 60 * 60 * 1000

\* the instants (Date.now(), in ms) at which the bot handles an update: the
\* start of each hour, and one millisecond, 999 ms and one second after it
Instants == {h * SessionExpiryTime + d : h \in 0..NumHours, d \in {0, 1, 999, 1000}}

\* CondensingLevel, and condensingLevel / bookId of a session that has none
Levels == {"light", "medium", "heavy"}
NoLevel == ""
NoBookId == <<>>

\* the two session services of the repository: the class SessionService
\* (lib/services/session-service.ts) and the module of functions with the
\* same names (part_014)
SessionServices == {"SessionService", "functions"}

Session(sessionId, state, level, bookId, createdAt, expiresAt) ==
  [sessionId |-> sessionId, state |-> state, condensingLevel |-> level,
   bookId |-> bookId, createdAt |-> createdAt, expiresAt |-> expiresAt]

\* null
NoSession == Session(<<>>, "none", NoLevel, NoBookId, 0, 0)

\* getSessionExpiryTime: Math.floor((now + sessionExpiryTime) / 1000), Unix
\* seconds (stored as a decimal string and read back with parseInt)
GetSessionExpiryTime(now) == (now + SessionExpiryTime) \div 1000

\* the sessionId of the one user's session: session_${userId}_${Date.now()}
\* in the class, session_${userId} in the functions
SessionId(sv, now) ==
  IF sv = "SessionService" THEN <<"session", "user", now>> ELSE <<"session", "user">>

\* dynamodb.ts: GetCommand, PutCommand, UpdateCommand, DeleteCommand on the
\* Sessions table (a set of items with distinct sessionId)
DbGetSession(table, sessionId) ==
  IF \E t \in table : t.sessionId = sessionId
    THEN CHOOSE t \in table : t.sessionId = sessionId
    ELSE NoSession

DbCreateSession(table, session) ==
  {t \in table : t.sessionId # session.sessionId} \cup {session}

DbUpdateSession(table, sessionId, updates) ==
  {IF t.sessionId = sessionId
     THEN [f \in DOMAIN t |-> IF f \in DOMAIN updates THEN updates[f] ELSE t[f]]
     ELSE t : t \in table}

DbDeleteSession(table, sessionId) == {t \in table : t.sessionId # sessionId}

\* createSession: the item it puts
CreateSession(sv, table, now) ==
  DbCreateSession(table, Session(SessionId(sv, now), "awaiting_level", NoLevel,
                                 NoBookId, now, GetSessionExpiryTime(now)))

\* SessionService.findSessionsByUserId: "For now, we'll return empty array"
FindSessionsByUserId(table) == {}

\* SessionService.getSession: the most recent of the sessions found, or null;
\* getSessionByUserId of the functions: the item under session_${userId}
GetSession(sv, table) ==
  IF sv = "SessionService"
    THEN LET sessions == FindSessionsByUserId(table)
         IN IF sessions = {}
              THEN NoSession
              ELSE CHOOSE t \in sessions :
                     \A u \in sessions : u.createdAt <= t.createdAt
    ELSE DbGetSession(table, SessionId(sv, 0))

\* updateSession: throws when the user has no session
UpdateSession(sv, table, updates) ==
  LET session == GetSession(sv, table)
  IN IF session = NoSession
       THEN [thrown |-> TRUE, table |-> table]
       ELSE [thrown |-> FALSE,
             table |-> DbUpdateSession(table, session.sessionId, updates)]

DeleteSession(sv, table) ==
  LET session == GetSession(sv, table)
  IN IF session = NoSession
       THEN table
       ELSE DbDeleteSession(table, session.sessionId)

SetCondensingLevel(sv, table, level) ==
  UpdateSession(sv, table, [condensingLevel |-> level, state |-> "awaiting_pdf"])

SetProcessingState(sv, table, bookId) ==
  UpdateSession(sv, table, [bookId |-> bookId, state |-> "processing"])

\* getUserActiveSession comparing Date.now() with expiresAt without the
\* conversion of the seconds to milliseconds
GetUserActiveSessionSeconds(sv, table, now) ==
  LET session == GetSession(sv, table)
  IN IF session = NoSession
       THEN [session |-> NoSession, table |-> table]
     ELSE IF now > session.expiresAt
       THEN [session |-> NoSession, table |-> DeleteSession(sv, table)]
     ELSE [session |-> session, table |-> table]

\* getUserActiveSession: the session returned (or null) and the table it
\* leaves
GetUserActiveSession(sv, table, now) ==
  LET session == GetSession(sv, table)
  IN IF session = NoSession
       THEN [session |-> NoSession, table |-> table]
     ELSE IF now > session.expiresAt * 1000
       THEN [session |-> NoSession, table |-> DeleteSession(sv, table)]
     ELSE [session |-> session, table |-> table]

\* the bot of one user: the session service it was created with, the
\* Sessions table, Date.now(), the books created, the last update handled
\* (seq alternates with every update), the bot's reply to it and the
\* session getUserActiveSession returned in it
Bot(sv, table, books) ==
  [service |-> sv, table |-> table, now |-> 0, books |-> books, seq |-> 0,
   last |-> "none", reply |-> "none", active |-> NoSession]

\* the bot while it handles the upload of the user's book: the session of
\* the functions, set to processing by setProcessingState
BotUploading ==
  Bot("functions",
      {Session(SessionId("functions", 0), "processing", "medium", <<"book", 1>>,
               0, GetSessionExpiryTime(0))},
      1)

\* ------------------------------------------------------------------ state
VARIABLES
  book,          \* the job record in the Books table
  finalPdf,      \* chapter ids of the documents in final/{bookId}_condensed.pdf
  queue,         \* bag of messages waiting in the processing queue
  pcBot,         \* position of the bot's message:document handler
  pc,            \* position of each Lambda invocation
  msg,           \* the message a queue-processor invocation is handling
  local,         \* the invocation's local chapters / chaptersInfo
  cause,         \* error.message of the error the invocation has caught
  ai,            \* the AI service in this run: the answers it may give to the
                 \* segmentation prompt, and how many condensation calls fail
  segmented,     \* chaptersInfo of the latest segmentation stored (history)
  combineSent,   \* number of combine_chapters messages ever sent (history)
  document,      \* the Buffer of the document sent to the bot
  chapterPdf,    \* page indices of the chapter document an invocation extracted
  doneOrder,     \* chapter ids in the order of their first completion (history)
  chat,          \* the user's Telegram chat: the notification the progress
                 \* handler last edited into it, and whether the user has
                 \* pressed Cancel Processing
  session,       \* the bot's side of the user's chat: session service,
                 \* Sessions table, clock, books created, last update
  api            \* the web API: the user's record, the book records created
                 \* and the position of each POST /api/books request

vars == <<book, finalPdf, queue, pcBot, pc, msg, local, cause, ai, segmented,
          combineSent, document, chapterPdf, doneOrder, chat, session, api>>

\* BookService.createBook: the book record it puts
NewBook ==
  [status |-> "uploading", progress |-> 0, chapters |-> <<>>,
   title |-> FileTitle, originalUrl |-> NoUrl, condensedUrl |-> NoUrl,
   downloadUrl |-> NoUrl, error |-> NoError]

\* the pipeline with nothing running or queued: job record b, the bot's
\* message:document handler at position at
Pipeline(b, at) ==
  /\ book = b
  /\ finalPdf = <<>>
  /\ queue = EmptyBag
  /\ pcBot = at
  /\ pc = [p \in Procs |-> "idle"]
  /\ msg = [p \in Procs |-> NoMsg]
  /\ local = [p \in Procs |-> <<>>]
  /\ cause = [p \in Procs |-> ""]
  /\ segmented = <<>>
  /\ combineSent = 0
  /\ chapterPdf = [p \in Procs |-> <<>>]
  /\ doneOrder = <<>>
  /\ chat = NewChat

\* the bot's handler after createBook and setProcessingState
Created ==
  /\ Pipeline(NewBook, "upload")
  /\ session = BotUploading

Init ==
  /\ Created
  /\ api = ApiIdle
  /\ document \in PipelineDocuments
  /\ ai = [answers |-> AIResponses, failures |-> MaxAiFailures,
           metadata |-> MetaTitled]

\* the three-chapter scenario: the segmenter answers essential = [true,
\* false, true] and every condensation succeeds
InitScenario ==
  /\ Created
  /\ api = ApiIdle
  /\ document \in PipelineDocuments
  /\ ai = [answers |-> {RespThree}, failures |-> 0, metadata |-> MetaTitled]

\* ---------------------------------------------------------------- helpers
Message(a, c) == [action |-> a, chapterId |-> c, receives |-> 1]

Send(q, m) == q (+) SetToBag({m})

\* BookService.markFailed: the update of the book record
MarkFailed(b, prefix, why) == [b EXCEPT !.status = "failed", !.error = <<prefix, why>>]

EssentialChapters(chs) == {i \in 1..Len(chs) : chs[i].isEssential}
CompletedOf(chs, S) == {i \in S : chs[i].status = "completed"}

\* the invocation returns (or has thrown): its memory is gone
Finish(p) ==
  /\ pc' = [pc EXCEPT ![p] = IF p = S3Proc THEN "done" ELSE "idle"]
  /\ msg' = [msg EXCEPT ![p] = NoMsg]
  /\ local' = [local EXCEPT ![p] = <<>>]
  /\ cause' = [cause EXCEPT ![p] = ""]
  /\ chapterPdf' = [chapterPdf EXCEPT ![p] = <<>>]

Goto(p, label) == pc' = [pc EXCEPT ![p] = label]

Throw(p, label, why) ==
  /\ pc' = [pc EXCEPT ![p] = label]
  /\ cause' = [cause EXCEPT ![p] = why]

\* ------------------------------------------------ bot: message:document
\* BookService.uploadOriginalPdf, validatePdf rejects the buffer (or
\* extractBookMetadata throws): the catch block marks the book failed and
\* rethrows; the bot never starts processing
UploadInvalidPdf ==
  /\ pcBot = "upload"
  /\ \/ ~ValidatePdf(document).isValid
     \/ ExtractBookMetadata(ai.metadata).thrown
  /\ book' = MarkFailed(book, "Upload failed",
                        IF ~ValidatePdf(document).isValid
                          THEN ValidatePdf(document).error
                          ELSE "metadata")
  /\ chat' = Notify(chat, FailedMessage(book'.error))
  /\ pcBot' = "done"
  /\ UNCHANGED <<finalPdf, queue, pc, msg, local, cause, ai,
                 segmented, combineSent, document, chapterPdf, doneOrder, session, api>>

\* an upload that stores the buffer without looking at the validation
UploadOriginalFileUnvalidated ==
  /\ pcBot = "upload"
  /\ ~ExtractBookMetadata(ai.metadata).thrown
  /\ pcBot' = "markQueued"
  /\ pc' = [pc EXCEPT ![S3Proc] = "s3_event"]
  /\ UNCHANGED <<book, finalPdf, queue, msg, local, cause, ai,
                 segmented, combineSent, document, chapterPdf, doneOrder, chat, session, api>>

\* BookService.uploadOriginalPdf up to s3.uploadFile: the object created
\* under original/ fires the bucket notification
UploadOriginalFile ==
  /\ pcBot = "upload"
  /\ ValidatePdf(document).isValid
  /\ ~ExtractBookMetadata(ai.metadata).thrown
  /\ pcBot' = "markQueued"
  /\ pc' = [pc EXCEPT ![S3Proc] = "s3_event"]
  /\ UNCHANGED <<book, finalPdf, queue, msg, local, cause, ai,
                 segmented, combineSent, document, chapterPdf, doneOrder, chat, session, api>>

\* BookService.uploadOriginalPdf: the update of the book record
UploadMarkQueued ==
  /\ pcBot = "markQueued"
  /\ book' = [book EXCEPT
       !.originalUrl = <<"original">>,
       !.title = JsOrStr(ExtractBookMetadata(ai.metadata).title, DefaultTitle),
       !.status = "queued",
       !.progress = 5]
  /\ pcBot' = "start"
  /\ UNCHANGED <<finalPdf, queue, pc, msg, local, cause, ai,
                 segmented, combineSent, document, chapterPdf, doneOrder, chat, session, api>>

\* BookService.startProcessing
StartProcessing ==
  /\ pcBot = "start"
  /\ book' = [book EXCEPT !.status = "processing", !.progress = 10]
  /\ queue' = Send(queue, Message("process_book", 0))
  /\ pcBot' = "done"
  /\ UNCHANGED <<finalPdf, pc, msg, local, cause, ai, segmented,
                 combineSent, document, chapterPdf, doneOrder, chat, session, api>>

\* ------------------------------------------------------- queue-processor
\* Invocation p starts on action a: the pdf-processor on the pending S3
\* notification, the queue-processor on a message m of the processing queue
\* (idle invocations are interchangeable: the lowest one takes the message)
Delivered(p, a, m) ==
  IF p = S3Proc
    THEN a = "process_book" /\ pc[p] = "s3_event" /\ m = NoMsg
    ELSE /\ pc[p] = "idle"
         /\ \A v \in Workers : v < p => pc[v] # "idle"
         /\ m \in BagToSet(queue)
         /\ m.action = a

Take(p, m) ==
  /\ queue' = IF p = S3Proc THEN queue ELSE queue (-) SetToBag({m})
  /\ msg' = [msg EXCEPT ![p] = m]

Deliveries(a) == IF a = "process_book" THEN BagToSet(queue) \cup {NoMsg} ELSE BagToSet(queue)

\* handler's catch block (queue-processor and pdf-processor): markFailed; the
\* queue-processor rethrows, so SQS delivers the message again (the queue has
\* no redrive policy: the model stops after the given number of deliveries)
HandlerCatchUpTo(p, deliveries) ==
  /\ pc[p] = "h_catch"
  /\ book' = MarkFailed(book, IF p = S3Proc THEN "S3 processing failed"
                                            ELSE "Processing failed", cause[p])
  /\ chat' = Notify(chat, FailedMessage(book'.error))
  /\ queue' = IF p \in Workers /\ msg[p].receives < deliveries
                THEN Send(queue, [msg[p] EXCEPT !.receives = @ + 1])
                ELSE queue
  /\ Finish(p)
  /\ UNCHANGED <<finalPdf, pcBot, ai, segmented,
                 combineSent, document, doneOrder, session, api>>

\* the handler's catch block in the pipeline's runs
HandlerCatch(p) == HandlerCatchUpTo(p, MaxReceive)

\* ------------------------------------------- BookService.processChapters
\* getBook, download of the original, extractText, gemini.identifyChapters
ProcessChaptersRead(p) ==
  /\ \E m \in Deliveries("process_book") :
       /\ Delivered(p, "process_book", m)
       /\ Take(p, m)
  /\ IF book.originalUrl = NoUrl
       THEN /\ Throw(p, "pc_catch", "download failed")
            /\ UNCHANGED local
       ELSE \E r \in ai.answers :
              IF r.hasJson
                THEN /\ local' = [local EXCEPT ![p] = r.chapters]
                     /\ Goto(p, "pc_write")
                     /\ UNCHANGED cause
                ELSE /\ Throw(p, "pc_catch", "No valid JSON found in AI response")
                     /\ UNCHANGED local
  /\ UNCHANGED <<book, finalPdf, pcBot, ai, segmented, combineSent,
                 document, chapterPdf, doneOrder, chat, session, api>>

\* updateBook({chapters, progress: 25}) and the fan-out loop
ProcessChaptersWrite(p) ==
  /\ pc[p] = "pc_write"
  /\ LET chapters == ToChapters(local[p])
         essential == EssentialChapters(chapters)
     IN /\ book' = [book EXCEPT !.chapters = chapters, !.progress = 25]
        /\ queue' = queue (+) SetToBag({Message("condense_chapter", i) : i \in essential})
  /\ segmented' = local[p]
  /\ Finish(p)
  /\ UNCHANGED <<finalPdf, pcBot, ai, combineSent,
                 document, doneOrder, chat, session, api>>

\* processChapters' catch block logging the error without markFailed or
\* rethrow
ProcessChaptersCatchSwallow(p) ==
  /\ pc[p] = "pc_catch"
  /\ Finish(p)
  /\ UNCHANGED <<book, finalPdf, queue, pcBot, ai, segmented,
                 combineSent, document, doneOrder, chat, session, api>>

\* processChapters' catch block
ProcessChaptersCatch(p) ==
  /\ pc[p] = "pc_catch"
  /\ book' = MarkFailed(book, "Chapter processing failed", cause[p])
  /\ chat' = Notify(chat, FailedMessage(book'.error))
  /\ Goto(p, "h_catch")
  /\ UNCHANGED <<finalPdf, queue, pcBot, msg, local, cause, ai,
                 segmented, combineSent, document, chapterPdf, doneOrder, session, api>>

\* ------------------------------------------- BookService.condenseChapter
\* getBook and book.chapters.find
CondenseRead(w) ==
  /\ \E m \in Deliveries("condense_chapter") :
       /\ Delivered(w, "condense_chapter", m)
       /\ Take(w, m)
       /\ IF m.chapterId \in 1..Len(book.chapters)
            THEN Goto(w, "cc_mark") /\ UNCHANGED cause
            ELSE Throw(w, "cc_catch", "Chapter not found")
  /\ local' = [local EXCEPT ![w] = book.chapters]
  /\ UNCHANGED <<book, finalPdf, pcBot, ai, segmented, combineSent,
                 document, chapterPdf, doneOrder, chat, session, api>>

\* chapter.status = "processing", updateBook({chapters: book.chapters}); then
\* extractChapter, gemini.condenseChapter, createTextPdf and the upload of the
\* condensed chapter, which succeed or throw
CondenseMarkProcessing(w) ==
  /\ pc[w] = "cc_mark"
  /\ LET c == msg[w].chapterId
         chapters == [local[w] EXCEPT ![c].status = "processing"]
     IN /\ local' = [local EXCEPT ![w] = chapters]
        /\ book' = [book EXCEPT !.chapters = chapters]
        /\ IF ~ExtractChapter(chapters[c]).ok
             THEN /\ Throw(w, "cc_catch", "Invalid page range")
                  /\ UNCHANGED <<ai, chapterPdf>>
             ELSE /\ chapterPdf' = [chapterPdf EXCEPT
                                      ![w] = ExtractChapter(chapters[c]).pages]
                  /\ \E aiOk \in BOOLEAN :
                       IF aiOk
                         THEN Goto(w, "cc_complete") /\ UNCHANGED <<cause, ai>>
                         ELSE /\ ai.failures > 0
                              /\ ai' = [ai EXCEPT !.failures = @ - 1]
                              /\ Throw(w, "cc_catch", "AI condensation failed")
  /\ UNCHANGED <<finalPdf, queue, pcBot, msg, segmented,
                 combineSent, document, doneOrder, chat, session, api>>

\* progress written when some essential chapter is not completed
ProgressPercent(completed, essential) == 30 + RoundDiv(completed * 60, essential)

\* "Check if all essential chapters are complete", on the invocation's copy
AllEssentialCompleted(chs) ==
  Cardinality(CompletedOf(chs, EssentialChapters(chs))) = Cardinality(EssentialChapters(chs))

\* chapter.status = "completed", chapter.condensedUrl, updateBook({chapters});
\* then the check: queueChaptersCombining when every essential chapter of the
\* copy is completed
CondenseMarkCompleted(w) ==
  /\ pc[w] = "cc_complete"
  /\ LET c == msg[w].chapterId
         chapters == [local[w] EXCEPT ![c].status = "completed",
                                      ![c].condensedUrl = <<"condensed", c>>]
     IN /\ book' = [book EXCEPT !.chapters = chapters]
        /\ doneOrder' = IF \E i \in 1..Len(doneOrder) : doneOrder[i] = c
                          THEN doneOrder
                          ELSE Append(doneOrder, c)
        /\ IF AllEssentialCompleted(chapters)
             THEN /\ queue' = Send(queue, Message("combine_chapters", 0))
                  /\ combineSent' = combineSent + 1
                  /\ Finish(w)
             ELSE /\ local' = [local EXCEPT ![w] = chapters]
                  /\ Goto(w, "cc_progress")
                  /\ UNCHANGED <<queue, combineSent, msg, cause, chapterPdf>>
  /\ UNCHANGED <<finalPdf, pcBot, ai, segmented, document, chat, session, api>>

\* the else branch of the check: updateBook({progress, currentStep})
CondenseProgress(w) ==
  /\ pc[w] = "cc_progress"
  /\ LET essential == EssentialChapters(local[w])
         completed == CompletedOf(local[w], essential)
     IN book' = [book EXCEPT !.progress =
                   ProgressPercent(Cardinality(completed), Cardinality(essential))]
  /\ Finish(w)
  /\ UNCHANGED <<finalPdf, queue, pcBot, ai, segmented,
                 combineSent, document, doneOrder, chat, session, api>>

\* condenseChapter's catch block: getBook again
CondenseCatchRead(w) ==
  /\ pc[w] = "cc_catch"
  /\ local' = [local EXCEPT ![w] = book.chapters]
  /\ IF msg[w].chapterId \in 1..Len(book.chapters)
       THEN Goto(w, "cc_skip")
       ELSE Goto(w, "h_catch")
  /\ UNCHANGED <<book, finalPdf, queue, pcBot, msg, cause, ai,
                 segmented, combineSent, document, chapterPdf, doneOrder, chat, session, api>>

\* chapter.status = "skipped", updateBook({chapters}); rethrow
CondenseMarkSkipped(w) ==
  /\ pc[w] = "cc_skip"
  /\ LET c == msg[w].chapterId
         chapters == [local[w] EXCEPT ![c].status = "skipped"]
     IN /\ local' = [local EXCEPT ![w] = chapters]
        /\ book' = [book EXCEPT !.chapters = chapters]
  /\ Goto(w, "h_catch")
  /\ UNCHANGED <<finalPdf, queue, pcBot, msg, cause, ai, segmented,
                 combineSent, document, chapterPdf, doneOrder, chat, session, api>>

\* ---------------------------------- BookService.combineCondensedChapters
CompletedChapters(chs) ==
  SelectSeq(chs, LAMBDA ch : ch.status = "completed" /\ ch.condensedUrl # NoUrl)

\* PdfProcessor.combineChapters putting each document before the earlier ones
CombineChaptersReversed(chs) == [i \in 1..Len(chs) |-> chs[Len(chs) + 1 - i].chapterId]

\* PdfProcessor.combineChapters: the documents in the order given
CombineChapters(chs) == [i \in 1..Len(chs) |-> chs[i].chapterId]

\* combineCondensedChapters without the test of completedChapters.length
CombineReadUnchecked(w) ==
  /\ \E m \in Deliveries("combine_chapters") :
       /\ Delivered(w, "combine_chapters", m)
       /\ Take(w, m)
  /\ local' = [local EXCEPT ![w] = book.chapters]
  /\ Goto(w, "cb_write")
  /\ UNCHANGED <<book, finalPdf, pcBot, cause, ai, segmented,
                 combineSent, document, chapterPdf, doneOrder, chat, session, api>>

\* getBook and the filter of completed chapters
CombineRead(w) ==
  /\ \E m \in Deliveries("combine_chapters") :
       /\ Delivered(w, "combine_chapters", m)
       /\ Take(w, m)
  /\ local' = [local EXCEPT ![w] = book.chapters]
  /\ IF Len(CompletedChapters(book.chapters)) = 0
       THEN Throw(w, "cb_catch", "No condensed chapters to combine")
       ELSE Goto(w, "cb_write") /\ UNCHANGED cause
  /\ UNCHANGED <<book, finalPdf, pcBot, ai, segmented, combineSent,
                 document, chapterPdf, doneOrder, chat, session, api>>

\* combineChapters, upload of the final PDF, updateBook({status: completed})
CombineWrite(w) ==
  /\ pc[w] = "cb_write"
  /\ finalPdf' = CombineChapters(CompletedChapters(local[w]))
  /\ book' = [book EXCEPT !.status = "completed", !.progress = 100,
                          !.condensedUrl = <<"final">>,
                          !.downloadUrl = <<"presigned", "final">>]
  /\ chat' = Notify(chat, CompletedMessage)
  /\ Finish(w)
  /\ UNCHANGED <<queue, pcBot, ai, segmented,
                 combineSent, document, doneOrder, session, api>>

\* combineCondensedChapters' catch block
CombineCatch(w) ==
  /\ pc[w] = "cb_catch"
  /\ book' = MarkFailed(book, "Final assembly failed", cause[w])
  /\ chat' = Notify(chat, FailedMessage(book'.error))
  /\ Goto(w, "h_catch")
  /\ UNCHANGED <<finalPdf, queue, pcBot, msg, local, cause, ai,
                 segmented, combineSent, document, chapterPdf, doneOrder, session, api>>

\* ------------------------------------------------------------------ spec
Next ==
  \/ UploadInvalidPdf
  \/ UploadOriginalFile
  \/ UploadMarkQueued
  \/ StartProcessing
  \/ \E p \in Procs : HandlerCatch(p)
  \/ \E p \in Procs : ProcessChaptersRead(p)
  \/ \E p \in Procs : ProcessChaptersWrite(p)
  \/ \E p \in Procs : ProcessChaptersCatch(p)
  \/ \E w \in Workers : CondenseRead(w)
  \/ \E w \in Workers : CondenseMarkProcessing(w)
  \/ \E w \in Workers : CondenseMarkCompleted(w)
  \/ \E w \in Workers : CondenseProgress(w)
  \/ \E w \in Workers : CondenseCatchRead(w)
  \/ \E w \in Workers : CondenseMarkSkipped(w)
  \/ \E w \in Workers : CombineRead(w)
  \/ \E w \in Workers : CombineWrite(w)
  \/ \E w \in Workers : CombineCatch(w)

Spec == Init /\ [][Next]_vars

\* no condensation fails in the scenario, so condenseChapter's catch block
\* never runs
NextScenario ==
  \/ UploadInvalidPdf
  \/ UploadOriginalFile
  \/ UploadMarkQueued
  \/ StartProcessing
  \/ \E p \in Procs : HandlerCatch(p)
  \/ \E p \in Procs : ProcessChaptersRead(p)
  \/ \E p \in Procs : ProcessChaptersWrite(p)
  \/ \E p \in Procs : ProcessChaptersCatch(p)
  \/ \E w \in Workers : CondenseRead(w)
  \/ \E w \in Workers : CondenseMarkProcessing(w)
  \/ \E w \in Workers : CondenseMarkCompleted(w)
  \/ \E w \in Workers : CondenseProgress(w)
  \/ \E w \in Workers : CombineRead(w)
  \/ \E w \in Workers : CombineWrite(w)
  \/ \E w \in Workers : CombineCatch(w)

SpecScenario == InitScenario /\ [][NextScenario]_vars

\* the AI answers every segmentation prompt with text that holds no JSON
\* array: processChapters never gets as far as its write
InitMalformed ==
  /\ Created
  /\ api = ApiIdle
  /\ document \in Documents
  /\ ai = [answers |-> {RespMalformed}, failures |-> 0, metadata |-> MetaTitled]

NextMalformed ==
  \/ UploadInvalidPdf
  \/ UploadOriginalFile
  \/ UploadMarkQueued
  \/ StartProcessing
  \/ \E p \in Procs : HandlerCatch(p)
  \/ \E p \in Procs : ProcessChaptersRead(p)
  \/ \E p \in Procs : ProcessChaptersCatch(p)

SpecMalformed == InitMalformed /\ [][NextMalformed]_vars

\* the upload alone: the bot's handler on every document and every answer of
\* the AI to the metadata prompt
InitUpload ==
  /\ Created
  /\ api = ApiIdle
  /\ document \in Documents
  /\ \E m \in MetaResponses :
       ai = [answers |-> AIResponses, failures |-> MaxAiFailures, metadata |-> m]

NextUpload ==
  \/ UploadInvalidPdf
  \/ UploadOriginalFile
  \/ UploadMarkQueued
  \/ StartProcessing

SpecUpload == InitUpload /\ [][NextUpload]_vars

\* the condensation of one chapter of any page span: the job as the
\* process_book run leaves it when the AI has answered one chapter (the run
\* of the S3 notification has failed on the empty originalUrl before)
PageNumbers == (0 - 1)..(TotalPages + 2)

Segmented(infos) ==
  /\ book = [status |-> "processing", progress |-> 25,
             chapters |-> ToChapters(infos), title |-> ai.metadata.title,
             originalUrl |-> <<"original">>, condensedUrl |-> NoUrl,
             downloadUrl |-> NoUrl,
             error |-> <<"S3 processing failed", "download failed">>]
  /\ finalPdf = <<>>
  /\ queue = SetToBag({Message("condense_chapter", i) : i \in 1..Len(infos)})
  /\ pcBot = "done"
  /\ pc = [p \in Procs |-> IF p = S3Proc THEN "done" ELSE "idle"]
  /\ msg = [p \in Procs |-> NoMsg]
  /\ local = [p \in Procs |-> <<>>]
  /\ cause = [p \in Procs |-> ""]
  /\ segmented = infos
  /\ combineSent = 0
  /\ document = SmallestPdf
  /\ chapterPdf = [p \in Procs |-> <<>>]
  /\ doneOrder = <<>>
  /\ chat = Notify(NewChat, FailedMessage(book.error))
  /\ session = BotUploading
  /\ api = ApiIdle

InitMaterializer ==
  /\ ai = [answers |-> AIResponses, failures |-> MaxAiFailures,
           metadata |-> MetaTitled]
  /\ \E s, e \in PageNumbers : Segmented(<<ChapterInfo(s, e, TRUE)>>)

NextMaterializer ==
  \/ \E p \in Procs : HandlerCatch(p)
  \/ \E w \in Workers : CondenseRead(w)
  \/ \E w \in Workers : CondenseMarkProcessing(w)
  \/ \E w \in Workers : CondenseMarkCompleted(w)
  \/ \E w \in Workers : CondenseCatchRead(w)
  \/ \E w \in Workers : CondenseMarkSkipped(w)

SpecMaterializer == InitMaterializer /\ [][NextMaterializer]_vars

\* ------------------------------------------- bot: cancel_processing callback
\* sessionService.deleteSession, "TODO: Cancel any ongoing book processing",
\* and the reply edited into the message that carried the button
CancelProcessing ==
  /\ pcBot = "done"
  /\ book.status = "processing"
  /\ ~chat.cancelled
  /\ chat' = [chat EXCEPT !.cancelled = TRUE]
  /\ session' = [session EXCEPT
       !.table = DeleteSession(session.service, session.table),
       !.seq = 1 - @, !.last = "cancel_processing", !.reply = "cancelled",
       !.active = NoSession]
  /\ UNCHANGED <<book, finalPdf, queue, pcBot, pc, msg, local, cause, ai,
                 segmented, combineSent, document, chapterPdf, doneOrder, api>>

\* a two-chapter book whose condensations all succeed, and a user who may
\* cancel while it is processed
InitCancel ==
  /\ Created
  /\ api = ApiIdle
  /\ document \in PipelineDocuments
  /\ ai = [answers |-> {RespPair}, failures |-> 0, metadata |-> MetaTitled]

NextCancel ==
  \/ UploadInvalidPdf
  \/ UploadOriginalFile
  \/ UploadMarkQueued
  \/ StartProcessing
  \/ CancelProcessing
  \/ \E p \in Procs : HandlerCatch(p)
  \/ \E p \in Procs : ProcessChaptersRead(p)
  \/ \E p \in Procs : ProcessChaptersWrite(p)
  \/ \E p \in Procs : ProcessChaptersCatch(p)
  \/ \E w \in Workers : CondenseRead(w)
  \/ \E w \in Workers : CondenseMarkProcessing(w)
  \/ \E w \in Workers : CondenseMarkCompleted(w)
  \/ \E w \in Workers : CondenseProgress(w)
  \/ \E w \in Workers : CombineRead(w)
  \/ \E w \in Workers : CombineWrite(w)
  \/ \E w \in Workers : CombineCatch(w)

SpecCancel == InitCancel /\ [][NextCancel]_vars

\* the condensation of a two-chapter book while the AI keeps failing, followed
\* over two deliveries more than in the pipeline's runs
InitRetry ==
  /\ ai = [answers |-> AIResponses, failures |-> MaxReceive + 2,
           metadata |-> MetaTitled]
  /\ Segmented(<<ChapterInfo(1, 2, TRUE), ChapterInfo(3, TotalPages, TRUE)>>)

NextRetry ==
  \/ \E p \in Procs : HandlerCatchUpTo(p, MaxReceive + 2)
  \/ \E w \in Workers : CondenseRead(w)
  \/ \E w \in Workers : CondenseMarkProcessing(w)
  \/ \E w \in Workers : CondenseMarkCompleted(w)
  \/ \E w \in Workers : CondenseProgress(w)
  \/ \E w \in Workers : CondenseCatchRead(w)
  \/ \E w \in Workers : CondenseMarkSkipped(w)

SpecRetry == InitRetry /\ [][NextRetry]_vars

\* the condensation and assembly of a two-chapter book whose condensations
\* all succeed: SQS delivers every queued message and a Lambda invocation
\* runs to its end
InitFanIn ==
  /\ ai = [answers |-> AIResponses, failures |-> 0, metadata |-> MetaTitled]
  /\ Segmented(<<ChapterInfo(1, 2, TRUE), ChapterInfo(3, TotalPages, TRUE)>>)

NextFanIn ==
  \/ \E w \in Workers : CondenseRead(w)
  \/ \E w \in Workers : CondenseMarkProcessing(w)
  \/ \E w \in Workers : CondenseMarkCompleted(w)
  \/ \E w \in Workers : CondenseProgress(w)
  \/ \E w \in Workers : CombineRead(w)
  \/ \E w \in Workers : CombineWrite(w)

SpecFanIn ==
  /\ InitFanIn
  /\ [][NextFanIn]_vars
  /\ \A w \in Workers :
       /\ WF_vars(CondenseRead(w))
       /\ WF_vars(CondenseMarkProcessing(w))
       /\ WF_vars(CondenseMarkCompleted(w))
       /\ WF_vars(CondenseProgress(w))
       /\ WF_vars(CombineRead(w))
       /\ WF_vars(CombineWrite(w))

\* ------------------------------------------------- web API: POST /api/books
\* "Check daily quota again": prisma.user.findUnique and the test
PostBooksCheckQuota(r) ==
  /\ api.req[r] = "start"
  /\ api' = [api EXCEPT !.req[r] = IF api.dailyUsageCount >= DailyQuota
                                     THEN "rejected"
                                     ELSE "create"]
  /\ UNCHANGED <<book, finalPdf, queue, pcBot, pc, msg, local, cause, ai,
                 segmented, combineSent, document, chapterPdf, doneOrder, chat, session>>

\* prisma.book.create
PostBooksCreate(r) ==
  /\ api.req[r] = "create"
  /\ api' = [api EXCEPT !.books = @ + 1, !.req[r] = "increment"]
  /\ UNCHANGED <<book, finalPdf, queue, pcBot, pc, msg, local, cause, ai,
                 segmented, combineSent, document, chapterPdf, doneOrder, chat, session>>

\* incrementDailyUsage, then the publication of book-uploaded
PostBooksIncrement(r) ==
  /\ api.req[r] = "increment"
  /\ api' = [api EXCEPT !.dailyUsageCount = @ + 1, !.req[r] = "done"]
  /\ UNCHANGED <<book, finalPdf, queue, pcBot, pc, msg, local, cause, ai,
                 segmented, combineSent, document, chapterPdf, doneOrder, chat, session>>

\* concurrent POST /api/books requests of a user who has used any part of the
\* quota
InitApi ==
  /\ Created
  /\ document = SmallestPdf
  /\ ai = [answers |-> AIResponses, failures |-> MaxAiFailures,
           metadata |-> MetaTitled]
  /\ \E used \in 0..DailyQuota : api = Api(used, "start")

NextApi ==
  \/ \E r \in Requests : PostBooksCheckQuota(r)
  \/ \E r \in Requests : PostBooksCreate(r)
  \/ \E r \in Requests : PostBooksIncrement(r)

SpecApi == InitApi /\ [][NextApi]_vars

\* ------------------------------------------------- bot: the user's updates
\* no handler of the bot is running (the updates of one chat are handled one
\* after the other)
BotReady == pcBot \in {"idle", "done"}

\* the bot's record after the handler of update kind has replied
Handled(table, kind, reply, active) ==
  [session EXCEPT !.table = table, !.seq = 1 - @, !.last = kind,
                  !.reply = reply, !.active = active]

\* time passes between two updates
Tick ==
  /\ BotReady
  /\ \E t \in Instants :
       /\ t > session.now
       /\ session' = [session EXCEPT !.now = t]
  /\ UNCHANGED <<book, finalPdf, queue, pcBot, pc, msg, local, cause, ai,
                 segmented, combineSent, document, chapterPdf, doneOrder, chat, api>>

\* /condense whose test of the existing session's state is left out
CondenseCommandUnchecked ==
  /\ BotReady
  /\ LET a == GetUserActiveSession(session.service, session.table, session.now)
         created == CreateSession(session.service, a.table, session.now)
     IN /\ Cardinality(created) <= MaxSessions
        /\ session' = Handled(created, "condense", "select_level", a.session)
  /\ UNCHANGED <<book, finalPdf, queue, pcBot, pc, msg, local, cause, ai,
                 segmented, combineSent, document, chapterPdf, doneOrder, chat, api>>

\* bot.command("condense")
CondenseCommand ==
  /\ BotReady
  /\ LET a == GetUserActiveSession(session.service, session.table, session.now)
         created == CreateSession(session.service, a.table, session.now)
     IN IF a.session # NoSession /\ a.session.state = "processing"
          THEN session' = Handled(a.table, "condense", "already_processing", a.session)
          ELSE /\ Cardinality(created) <= MaxSessions
               /\ session' = Handled(created, "condense", "select_level", a.session)
  /\ UNCHANGED <<book, finalPdf, queue, pcBot, pc, msg, local, cause, ai,
                 segmented, combineSent, document, chapterPdf, doneOrder, chat, api>>

\* bot.callbackQuery(/^level:(.+)$/)
LevelCallback(level) ==
  /\ BotReady
  /\ LET r == SetCondensingLevel(session.service, session.table, level)
     IN session' = Handled(r.table, "level",
                           IF r.thrown THEN "level_failed" ELSE "level_saved",
                           NoSession)
  /\ UNCHANGED <<book, finalPdf, queue, pcBot, pc, msg, local, cause, ai,
                 segmented, combineSent, document, chapterPdf, doneOrder, chat, api>>

\* bot.callbackQuery("cancel")
CancelCallback ==
  /\ BotReady
  /\ session' = Handled(DeleteSession(session.service, session.table),
                        "cancel", "cancelled", NoSession)
  /\ UNCHANGED <<book, finalPdf, queue, pcBot, pc, msg, local, cause, ai,
                 segmented, combineSent, document, chapterPdf, doneOrder, chat, api>>

\* the session lets the user upload a book
Uploadable(s) ==
  s # NoSession /\ s.condensingLevel # NoLevel /\ s.state = "awaiting_pdf"

\* message:document that does not test the session's state
DocumentMessageAnyState(mime) ==
  /\ BotReady
  /\ IF mime # "application/pdf"
       THEN /\ session' = Handled(session.table, "document", "pdf_only", NoSession)
            /\ UNCHANGED <<book, pcBot, chat>>
       ELSE LET a == GetUserActiveSession(session.service, session.table, session.now)
                bookId == <<"book", session.books + 1>>
                r == SetProcessingState(session.service, a.table, bookId)
            IN IF a.session = NoSession \/ a.session.condensingLevel = NoLevel
                 THEN /\ session' = Handled(a.table, "document", "no_session", a.session)
                      /\ UNCHANGED <<book, pcBot, chat>>
                 ELSE /\ session.books < MaxBooks
                      /\ book' = NewBook
                      /\ chat' = NewChat
                      /\ session' = [Handled(r.table, "document",
                                             IF r.thrown THEN "failed" ELSE "uploading",
                                             a.session)
                                       EXCEPT !.books = @ + 1]
                      /\ pcBot' = IF r.thrown THEN "done" ELSE "upload"
  /\ UNCHANGED <<finalPdf, queue, pc, msg, local, cause, ai,
                 segmented, combineSent, document, chapterPdf, doneOrder, api>>

\* bot.on("message:document") up to setProcessingState: the test of the mime
\* type, getUserActiveSession and the test of the session, createBook,
\* setProcessingState (the catch block replies when it throws); the document
\* is one whose file_size passes the bot's test
DocumentMessage(mime) ==
  /\ BotReady
  /\ IF mime # "application/pdf"
       THEN /\ session' = Handled(session.table, "document", "pdf_only", NoSession)
            /\ UNCHANGED <<book, pcBot, chat>>
       ELSE LET a == GetUserActiveSession(session.service, session.table, session.now)
                bookId == <<"book", session.books + 1>>
                r == SetProcessingState(session.service, a.table, bookId)
            IN IF ~Uploadable(a.session)
                 THEN /\ session' = Handled(a.table, "document", "no_session", a.session)
                      /\ UNCHANGED <<book, pcBot, chat>>
                 ELSE /\ session.books < MaxBooks
                      /\ book' = NewBook
                      /\ chat' = NewChat
                      /\ session' = [Handled(r.table, "document",
                                             IF r.thrown THEN "failed" ELSE "uploading",
                                             a.session)
                                       EXCEPT !.books = @ + 1]
                      /\ pcBot' = IF r.thrown THEN "done" ELSE "upload"
  /\ UNCHANGED <<finalPdf, queue, pc, msg, local, cause, ai,
                 segmented, combineSent, document, chapterPdf, doneOrder, api>>

\* the record the model holds while the user has uploaded no book
NoBook == [NewBook EXCEPT !.status = "none"]

\* the bot of a user who has no session and no book, with either session
\* service, and the updates the user sends over the hours: /condense, the
\* level and cancel buttons, documents
InitSession ==
  /\ Pipeline(NoBook, "idle")
  /\ api = ApiIdle
  /\ document \in PipelineDocuments
  /\ ai = [answers |-> AIResponses, failures |-> MaxAiFailures,
           metadata |-> MetaTitled]
  /\ \E sv \in SessionServices : session = Bot(sv, {}, 0)

NextSession ==
  \/ Tick
  \/ CondenseCommand
  \/ \E level \in Levels : LevelCallback(level)
  \/ CancelCallback
  \/ CancelProcessing
  \/ \E mime \in {"application/pdf", "image/png"} : DocumentMessage(mime)
  \/ UploadInvalidPdf
  \/ UploadOriginalFile
  \/ UploadMarkQueued
  \/ StartProcessing

SpecSession == InitSession /\ [][NextSession]_vars

\* ------------------------------------------ web API: the per-book routes
\* the authenticated users, the ids a request may name, the book statuses
Users == {"U", "V"}
BookIds == 1..NumBookIds
BookStatuses == {"uploaded", "processing", "completed", "failed"}

\* a row of the book table, with the URL of the file when there is one
ApiBook(id, userId, status, hasOriginal, hasCondensed) ==
  [id |-> id, userId |-> userId, status |-> status,
   originalUrl |-> IF hasOriginal THEN <<"gs", id, "original">> ELSE NoUrl,
   condensedUrl |-> IF hasCondensed THEN <<"gs", id, "condensed">> ELSE NoUrl]

\* null
NoApiBook == [id |-> 0, userId |-> "", status |-> "none",
              originalUrl |-> NoUrl, condensedUrl |-> NoUrl]

\* the book tables: under each id no book or one book
BookTables ==
  LET Rows == [present : BOOLEAN, userId : Users, status : BookStatuses,
               original : BOOLEAN, condensed : BOOLEAN]
  IN {{ApiBook(id, f[id].userId, f[id].status, f[id].original, f[id].condensed) :
         id \in {i \in BookIds : f[i].present}} : f \in [BookIds -> Rows]}

\* prisma.book.findFirst({where: {id}}): an ownership test that leaves out
\* the userId
CheckBookOwnershipByIdOnly(table, bookId, userId) ==
  IF \E b \in table : b.id = bookId
    THEN CHOOSE b \in table : b.id = bookId
    ELSE NoApiBook

\* checkBookOwnership: prisma.book.findFirst({where: {id, userId}})
CheckBookOwnership(table, bookId, userId) ==
  IF \E b \in table : b.id = bookId /\ b.userId = userId
    THEN CHOOSE b \in table : b.id = bookId /\ b.userId = userId
    ELSE NoApiBook

\* what a route does: the reply's status code and body, the book table it
\* leaves, and the number of messages it publishes to book-uploaded
Reply(code, body, table, published) ==
  [code |-> code, body |-> body, table |-> table, published |-> published]

NotFound(message, table) == Reply(404, <<"Book not found", message>>, table, 0)

\* GET /:id
RouteGetBook(table, id, userId) ==
  LET found == CheckBookOwnership(table, id, userId)
  IN IF found = NoApiBook
       THEN NotFound("Book not found or access denied", table)
       ELSE Reply(200, <<found, "chapters">>, table, 0)

\* GET /:id/status
RouteGetStatus(table, id, userId) ==
  LET found == CheckBookOwnership(table, id, userId)
  IN IF found = NoApiBook
       THEN NotFound("Book not found or access denied", table)
       ELSE Reply(200, <<found.id, found.status, "jobs">>, table, 0)

\* POST /:id/process
RoutePostProcess(table, id, userId) ==
  LET found == CheckBookOwnership(table, id, userId)
  IN IF found = NoApiBook
       THEN NotFound("Book not found or access denied", table)
     ELSE IF found.status = "processing"
       THEN Reply(400, <<"Already Processing">>, table, 0)
     ELSE IF found.status = "completed"
       THEN Reply(400, <<"Already Completed">>, table, 0)
     ELSE Reply(200, <<"Processing restarted", found.id, "uploaded">>,
                {IF b.id = id THEN [b EXCEPT !.status = "uploaded"] ELSE b : b \in table},
                1)

\* GET /:id/download/original
RouteDownloadOriginal(table, id, userId) ==
  LET found == CheckBookOwnership(table, id, userId)
  IN IF found = NoApiBook \/ found.originalUrl = NoUrl
       THEN NotFound("Book or original file not found", table)
       ELSE Reply(302, <<"signed", found.originalUrl>>, table, 0)

\* GET /:id/download/condensed
RouteDownloadCondensed(table, id, userId) ==
  LET found == CheckBookOwnership(table, id, userId)
  IN IF found = NoApiBook \/ found.condensedUrl = NoUrl \/ found.status # "completed"
       THEN NotFound("Condensed book not available or processing not completed", table)
       ELSE Reply(302, <<"signed", found.condensedUrl>>, table, 0)

\* DELETE /:id
RouteDelete(table, id, userId) ==
  LET found == CheckBookOwnership(table, id, userId)
  IN IF found = NoApiBook
       THEN NotFound("Book not found or access denied", table)
       ELSE Reply(200, <<"Book deleted successfully", id>>,
                  {b \in table : b.id # id}, 0)

Routes == {"details", "status", "process", "original", "condensed", "delete"}

Route(route, table, id, userId) ==
  CASE route = "details" -> RouteGetBook(table, id, userId)
    [] route = "status" -> RouteGetStatus(table, id, userId)
    [] route = "process" -> RoutePostProcess(table, id, userId)
    [] route = "original" -> RouteDownloadOriginal(table, id, userId)
    [] route = "condensed" -> RouteDownloadCondensed(table, id, userId)
    [] route = "delete" -> RouteDelete(table, id, userId)

\* a request of user userId on route for book id, and the reply to it
ApiRequest(route, userId, id) ==
  /\ LET r == Route(route, api.table, id, userId)
     IN api' = [api EXCEPT
          !.table = r.table,
          !.response = [seq |-> 1 - api.response.seq, route |-> route,
                        caller |-> userId, id |-> id, code |-> r.code,
                        body |-> r.body, published |-> r.published]]
  /\ UNCHANGED <<book, finalPdf, queue, pcBot, pc, msg, local, cause, ai,
                 segmented, combineSent, document, chapterPdf, doneOrder, chat, session>>

\* any book table, and the requests of both users on every route and id
InitOwnership ==
  /\ Pipeline(NoBook, "idle")
  /\ session = Bot("functions", {}, 0)
  /\ document = SmallestPdf
  /\ ai = [answers |-> AIResponses, failures |-> MaxAiFailures,
           metadata |-> MetaTitled]
  /\ \E table \in BookTables : api = [ApiIdle EXCEPT !.table = table]

NextOwnership ==
  \E route \in Routes, userId \in Users, id \in BookIds : ApiRequest(route, userId, id)

SpecOwnership == InitOwnership /\ [][NextOwnership]_vars

\* ---------------------------------------------------------------- claims
\* nothing is running and nothing is left to deliver
Quiescent ==
  /\ pcBot = "done"
  /\ queue = EmptyBag
  /\ \A p \in Procs : pc[p] \in {"idle", "done"}

Terminal(ch) == ch.status \in {"completed", "skipped"}

\* the job has chapters and each essential one is completed or skipped
AllEssentialTerminal ==
  /\ Len(book.chapters) > 0
  /\ \A i \in EssentialChapters(book.chapters) : Terminal(book.chapters[i])

StoredCompleted(c) ==
  /\ c \in 1..Len(book.chapters)
  /\ book.chapters[c].status = "completed"
  /\ book.chapters[c].condensedUrl # NoUrl

\* invocation w is a condenseChapter run for chapter c
Condensing(w, c) == msg[w].action = "condense_chapter" /\ msg[w].chapterId = c

\* C1: assembly is triggered at most once for the job: at most one
\* combine_chapters message is ever sent, whatever the interleaving of the
\* condenseChapter handlers.
C1_AssemblyAtMostOnce == combineSent <= 1

\* C2: once every essential chapter is completed or skipped, assembly is
\* eventually triggered. Stated on the runs that have ended: when nothing is
\* running or queued any more and every essential chapter is terminal, a
\* combine_chapters message has been sent.
C2_AssemblyTriggered == (Quiescent /\ AllEssentialTerminal) => combineSent >= 1

\* C3: concurrent completions do not clobber each other: when two
\* condenseChapter runs for different chapters have both written their
\* chapter as completed, the stored job records both chapters as completed,
\* with their condensedUrl.
C3_NoClobber ==
  \A w1, w2 \in Workers :
    (/\ w1 # w2
     /\ pc[w1] = "cc_progress" /\ pc[w2] = "cc_progress"
     /\ msg[w1].chapterId # msg[w2].chapterId)
    => StoredCompleted(msg[w1].chapterId) /\ StoredCompleted(msg[w2].chapterId)

\* C4: partial-failure survival: when the run has ended with every essential
\* chapter terminal, one of them skipped because its page range is invalid
\* (its materialization fails at every attempt), the job is completed with
\* an output of exactly the completed chapters if at least one chapter was
\* completed, and failed if none was.
C4_PartialFailureSurvival ==
  LET chs == book.chapters
      done == {i \in 1..Len(chs) : chs[i].status = "completed"}
  IN (/\ Quiescent
      /\ AllEssentialTerminal
      /\ \E i \in 1..Len(chs) : chs[i].status = "skipped" /\ ~PageRangeValid(chs[i]))
     => IF done # {}
          THEN /\ book.status = "completed"
               /\ finalPdf = CombineChapters(CompletedChapters(chs))
          ELSE book.status = "failed"

\* C5: a failure while processing one chapter changes only that chapter's
\* status, to skipped: no step of the failure handling of a condense_chapter
\* message changes the job's status or sets its error field.
C5_ChapterFailureIsLocal ==
  [][\A w \in Workers :
       (/\ msg[w].action = "condense_chapter"
        /\ pc[w] \in {"cc_catch", "cc_skip", "h_catch"}
        /\ pc'[w] # pc[w])
       => book'.status = book.status /\ book'.error = book.error]_vars

\* C6: segmentation stores every chapter classified non-essential as skipped
\* and dispatches no condense_chapter message for it, and stores every
\* essential chapter as pending.
C6_NonEssentialNeverDispatched ==
  [][\A p \in Procs :
       (pc[p] = "pc_write" /\ pc'[p] # "pc_write")
       => \A i \in 1..Len(local[p]) :
            IF local[p][i].isEssential
              THEN book'.chapters[i].status = "pending"
              ELSE /\ book'.chapters[i].status = "skipped"
                   /\ CopiesIn(Message("condense_chapter", i), queue')
                        = CopiesIn(Message("condense_chapter", i), queue)]_vars

\* C7: in the three-chapter scenario (essential = [true, false, true], every
\* condensation succeeds) chapter 2 is never condensed, and a completed job
\* has the output <<chapter 1, chapter 3>> and progress 100.
C7_ScenarioOutput ==
  /\ \A w \in Workers : ~Condensing(w, 2)
  /\ book.status = "completed" => (finalPdf = <<1, 3>> /\ book.progress = 100)

\* C8: while the job's status is processing, no write lowers the stored
\* progress.
C8_ProgressMonotonic ==
  [][(book.status = "processing" /\ book'.status = "processing")
       => book'.progress >= book.progress]_vars

\* C9: a completed job has its condensedUrl set and every essential chapter
\* completed or skipped.
C9_CompletedImpliesTerminal ==
  book.status = "completed"
    => /\ book.condensedUrl # NoUrl
       /\ \A i \in EssentialChapters(book.chapters) : Terminal(book.chapters[i])

\* C10: once the job has chapters, no step changes the length or the order of
\* the list, or the id or the page span of an entry.
C10_ChapterListStable ==
  [][Len(book.chapters) > 0
       => /\ Len(book'.chapters) = Len(book.chapters)
          /\ \A i \in 1..Len(book.chapters) :
               /\ book'.chapters[i].chapterId = book.chapters[i].chapterId
               /\ book'.chapters[i].pageStart = book.chapters[i].pageStart
               /\ book'.chapters[i].pageEnd = book.chapters[i].pageEnd]_vars

\* C11: one condense_chapter message is dispatched per chapter of the job:
\* segmentation and fan-out run once, so the processing queue never holds two
\* freshly dispatched (first-delivery) condense_chapter messages for the same
\* chapter.
C11_OneDispatchPerChapter ==
  \A m \in BagToSet(queue) :
    (m.action = "condense_chapter" /\ m.receives = 1) => CopiesIn(m, queue) <= 1

\* C12: completed and failed are terminal: once the stored status is completed
\* or failed, no step changes it.
C12_TerminalStatuses ==
  [][book.status \in {"completed", "failed"} => book'.status = book.status]_vars

\* the edges of the job's lifecycle
StatusEdges ==
  {<<"uploading", "queued">>, <<"queued", "processing">>,
   <<"processing", "completed">>, <<"processing", "failed">>}

\* C13: the job's status changes only along uploading -> queued, queued ->
\* processing, processing -> completed and processing -> failed.
C13_StatusEdgesOnly ==
  [][book'.status # book.status => <<book.status, book'.status>> \in StatusEdges]_vars

\* C15: when segmentation has stored an empty chapter list (zero essential
\* chapters) and the run has ended, assembly has run and failed: the job's
\* status is failed, it has not remained in processing.
C15_ZeroChaptersFails ==
  (/\ Quiescent
   /\ pc[S3Proc] = "done"
   /\ book.chapters = <<>>
   /\ book.progress = 25)
  => book.status = "failed"


\* invocation w is a combineCondensedChapters run
Combining(w) == msg[w].action = "combine_chapters"

NoneCompleted(chs) == \A i \in 1..Len(chs) : chs[i].status # "completed"

\* C14: an assembly run that finds zero completed chapters does not go on to
\* write the output: it fails, and every step of its failure handling leaves
\* the job failed with an error recorded, the final output untouched and the
\* job not marked completed.
C14_NothingToAssemble ==
  [][\A w \in Workers :
       /\ (pc[w] = "idle" /\ msg'[w].action = "combine_chapters"
           /\ NoneCompleted(book.chapters))
            => (pc'[w] = "cb_catch" /\ cause'[w] # "")
       /\ (Combining(w) /\ pc[w] \in {"cb_catch", "h_catch"} /\ pc'[w] # pc[w])
            => /\ book'.status = "failed"
               /\ book'.error # NoError
               /\ finalPdf' = finalPdf]_vars

\* an assembly run has failed on zero completed chapters and marked the job
\* failed
C14_Witness ==
  \E w \in Workers :
    /\ Combining(w)
    /\ pc[w] = "h_catch"
    /\ cause[w] = "No condensed chapters to combine"
    /\ Len(book.chapters) > 0
    /\ NoneCompleted(book.chapters)
    /\ book.status = "failed"
    /\ book.error = <<"Final assembly failed", cause[w]>>


\* C17: when the AI's answers to the segmentation prompt hold no JSON array,
\* no chapters are created (the chapter list stays empty and no
\* condense_chapter or combine_chapters message is ever queued), every
\* processChapters run that has failed leaves an error recorded, and once the
\* runs have ended the job is failed.
C17_MalformedSegmentation ==
  /\ book.chapters = <<>>
  /\ \A m \in BagToSet(queue) : m.action = "process_book"
  /\ \A p \in Procs : pc[p] = "h_catch" => book.error # NoError
  /\ (Quiescent /\ pc[S3Proc] = "done")
       => (book.status = "failed" /\ book.error # NoError)

\* both processChapters runs have failed on the malformed answer
C17_Witness ==
  /\ Quiescent
  /\ pc[S3Proc] = "done"
  /\ book.originalUrl # NoUrl
  /\ book.status = "failed"
  /\ book.error = <<"Processing failed", "No valid JSON found in AI response">>


\* the chapter a condenseChapter run is about, in the run's copy
ChapterOf(w) == local[w][msg[w].chapterId]

\* a condenseChapter run that is past extractChapter
Extracted(w) ==
  /\ msg[w].action = "condense_chapter"
  /\ pc[w] \in {"cc_complete", "cc_catch", "cc_skip", "h_catch"}

\* C19: the materializer copies exactly the 0-based page indices
\* max(1,start)-1 .. min(totalPages,end)-1 in ascending order: it clamps
\* instead of failing, the slice is not empty whenever clamped-start <=
\* clamped-end, and it fails with the invalid-page-range error exactly when
\* clamped-start > clamped-end.
C19_MaterializerClamps ==
  \A w \in Workers :
    Extracted(w) =>
      LET first == Max(1, ChapterOf(w).pageStart) - 1
          last == Min(TotalPages, ChapterOf(w).pageEnd) - 1
          pages == chapterPdf[w]
      IN /\ (cause[w] = "Invalid page range") <=> (first > last)
         /\ first <= last =>
              /\ Len(pages) > 0
              /\ {pages[i] : i \in 1..Len(pages)} = first..last
              /\ \A i \in 1..(Len(pages) - 1) : pages[i] < pages[i + 1]
         /\ first > last => pages = <<>>

\* a chapter whose span starts before page 1 and ends after the last page has
\* been materialized as the whole document
C19_Witness ==
  \E w \in Workers :
    /\ Extracted(w)
    /\ pc[w] = "cc_complete"
    /\ ChapterOf(w).pageStart < 1
    /\ ChapterOf(w).pageEnd > TotalPages
    /\ chapterPdf[w] = [i \in 1..TotalPages |-> i - 1]

\* the claim's condition on the buffer
Acceptable(buffer) ==
  /\ Len(buffer.bytes) >= 4
  /\ \A i \in 1..4 : buffer.bytes[i] = PdfMagic[i]
  /\ buffer.length >= 1024
  /\ buffer.length <= 100 * 1024 * 1024

MetadataFailure == ai.metadata.throws \/ ~ai.metadata.hasJson \/ ~ai.metadata.parses

IndexOrdered(seq) == \A i \in 1..(Len(seq) - 1) : seq[i] < seq[i + 1]

\* C16: whatever the order in which the chapters completed, the assembled
\* output is the documents of the chapters the assembly run read as
\* completed, in original chapter index order.
C16_AssemblyOrder ==
  [][\A w \in Workers :
       (pc[w] = "cb_write" /\ pc'[w] # "cb_write")
       => /\ IndexOrdered(finalPdf')
          /\ {finalPdf'[i] : i \in 1..Len(finalPdf')}
               = {i \in 1..Len(local[w]) : local[w][i].status = "completed"}]_vars

\* the three chapters completed in the order 3, 2, 1 and the output holds them
\* in the order 1, 2, 3
C16_Witness ==
  /\ doneOrder = <<3, 2, 1>>
  /\ finalPdf = <<1, 2, 3>>
  /\ book.status = "completed"


\* no essential chapter of the stored job is pending or processing
FanInSatisfied ==
  \A i \in EssentialChapters(book.chapters) :
    book.chapters[i].status \notin {"pending", "processing"}

\* C25: assembly never starts before fan-in is satisfied: when a
\* combineCondensedChapters run starts (it receives combine_chapters and reads
\* the job), no essential chapter of the stored job is pending or processing.
C25_AssemblyAfterFanIn ==
  [][\A w \in Workers :
       (pc[w] = "idle" /\ msg'[w].action = "combine_chapters") => FanInSatisfied]_vars

\* the statuses of the stored chapters, by position
ChapterStatuses(b) == [i \in 1..Len(b.chapters) |-> b.chapters[i].status]

\* first-delivery condense_chapter messages in the queue q
FreshCondense(q) ==
  {m \in BagToSet(q) : m.action = "condense_chapter" /\ m.receives = 1}

\* C26: once the job's status is completed or failed, no chapter work is
\* dispatched or performed: no step queues a condense_chapter message and no
\* step changes a chapter's status.
C26_NoWorkAfterTerminal ==
  [][book.status \in {"completed", "failed"}
       => /\ \A m \in FreshCondense(queue') : CopiesIn(m, queue') <= CopiesIn(m, queue)
          /\ ChapterStatuses(book') = ChapterStatuses(book)]_vars

\* the edges of a chapter's lifecycle
ChapterEdges ==
  {<<"pending", "processing">>, <<"processing", "completed">>,
   <<"processing", "skipped">>}

\* C27: a stored chapter's status changes only along pending -> processing ->
\* completed or skipped; a completed or skipped chapter never changes status
\* again.
C27_ChapterLifecycle ==
  [][\A i \in 1..Min(Len(book.chapters), Len(book'.chapters)) :
       book'.chapters[i].status # book.chapters[i].status
         => <<book.chapters[i].status, book'.chapters[i].status>> \in ChapterEdges]_vars

\* C29: a processChapters run starts (reads the job) only when the job has
\* entered processing, never while it is uploading or queued, and never reads
\* a job whose originalUrl is not recorded yet.
C29_SegmentationAfterProcessing ==
  [][\A p \in Procs :
       (pc[p] \in {"idle", "s3_event"} /\ pc'[p] \in {"pc_write", "pc_catch"})
       => /\ book.status \notin {"uploading", "queued"}
          /\ book.originalUrl # NoUrl]_vars

\* C30: the stored progress is within 0..100, and it is 100 exactly when the
\* job's status is completed.
C30_ProgressRange ==
  /\ book.progress \in 0..100
  /\ (book.progress = 100) <=> (book.status = "completed")


\* some stored chapter changes status in the step
ChapterStatusChanges ==
  \E i \in 1..Min(Len(book.chapters), Len(book'.chapters)) :
    book'.chapters[i].status # book.chapters[i].status

\* C21: every change of a chapter's status emits a progress event (so the
\* notification in the chat shows the job's stored progress and status after
\* the step), and every transition of the job to completed or failed emits an
\* event with that status.
C21_EventsOnEveryChange ==
  [][/\ ChapterStatusChanges
          => /\ chat'.notice # NoNotice
             /\ chat'.notice.progress = book'.progress
             /\ chat'.notice.status = book'.status
     /\ (book'.status # book.status /\ book'.status \in {"completed", "failed"})
          => chat'.notice.status = book'.status]_vars

\* C22: after the user's cancel request no new chapter work is dispatched and
\* the job does not proceed to assembly: no step queues a condense_chapter or
\* combine_chapters message or marks the job completed.
C22_CancelStopsWork ==
  [][chat.cancelled
       => /\ \A m \in BagToSet(queue') :
               (m.receives = 1 /\ m.action \in {"condense_chapter", "combine_chapters"})
                 => CopiesIn(m, queue') <= CopiesIn(m, queue)
          /\ book'.status = "completed" => book.status = "completed"]_vars

\* C23: the completion notification in the chat carries the download link:
\* one of its buttons has the job's downloadUrl.
C23_CompletionCarriesLink ==
  chat.notice.status = "completed"
    => /\ book.downloadUrl # NoUrl
       /\ \E i \in 1..Len(chat.notice.buttons) :
            chat.notice.buttons[i].url = book.downloadUrl

\* C24: the user's dailyUsageCount never exceeds the quota of 3, and no book
\* record is created once the count has reached it.
C24_DailyQuota ==
  /\ [](api.dailyUsageCount <= DailyQuota)
  /\ [][api.dailyUsageCount >= DailyQuota => api'.books = api.books]_vars

\* C28: a condensation unit whose AI call keeps failing is attempted at most 3
\* times: no condense_chapter message is delivered a fourth time.
C28_BoundedAttempts ==
  \A w \in Workers : msg[w].action = "condense_chapter" => msg[w].receives <= 3


\* C31: a document that fails validation leaves the job failed with the
\* validation's error recorded once uploadOriginalPdf has returned; at no
\* time is anything stored (no object-created notification, no originalUrl),
\* the job is never queued or processing, and no message is on the
\* processing queue.
C31_InvalidUploadFails ==
  ~ValidatePdf(document).isValid =>
    /\ book.status \in {"uploading", "failed"}
    /\ book.originalUrl = NoUrl
    /\ pc[S3Proc] = "idle"
    /\ queue = EmptyBag
    /\ pcBot \in {"upload", "done"}
    /\ pcBot = "done" =>
         /\ book.status = "failed"
         /\ book.error = <<"Upload failed", ValidatePdf(document).error>>
         /\ chat.notice.status = "failed"

\* the upload of a buffer of 1023 bytes with a PDF header has failed
C31_Witness ==
  /\ pcBot = "done"
  /\ document.length = MinPdfSize - 1
  /\ StartsWith(document.bytes, PdfMagic)
  /\ book.status = "failed"


\* C32: when every chapter's condensation succeeds, the job eventually
\* reaches status completed under any interleaving of the condenseChapter
\* handlers and fair delivery.
C32_EventuallyCompleted == <>(book.status = "completed")


\* the failure that brought invocation p to the handler's catch block was
\* thrown by processChapters or combineCondensedChapters, whose own catch
\* block has called markFailed for it
ReportedByService(p) ==
  /\ pc[p] = "h_catch"
  /\ p = S3Proc \/ msg[p].action \in {"process_book", "combine_chapters"}

\* C33: one failure of a processing step produces one failed notification:
\* when the service method's catch block has called markFailed for the
\* failure, the handler's catch block neither records the failure again nor
\* sends another failed message.
C33_OneFailedNotification ==
  [][\A p \in Procs :
       (ReportedByService(p) /\ pc'[p] # "h_catch")
         => /\ book'.error = book.error
            /\ chat'.notice = chat.notice]_vars


\* the step is the bot's handling of an update of the given kind
Handles(kind) == session'.seq # session.seq /\ session'.last = kind

\* the stored sessions that have not expired, and among them those in the
\* given state
ActiveSessions == {t \in session.table : ~(session.now > t.expiresAt * 1000)}
ActiveIn(state) == {t \in ActiveSessions : t.state = state}

\* C34: with the class SessionService, selecting a level right after
\* /condense has created the session finds that session and leaves it in
\* awaiting_pdf with the chosen level stored.
C34_LevelAfterCondense ==
  [][(/\ session.service = "SessionService"
      /\ session.last = "condense"
      /\ session.reply = "select_level"
      /\ Handles("level"))
       => /\ session'.reply = "level_saved"
          /\ \E t \in session'.table :
               /\ t.state = "awaiting_pdf"
               /\ t.condensingLevel \in Levels
               /\ t.createdAt = session.now]_vars

\* the user has an active, unexpired session in awaiting_pdf with a level set
Eligible == \E t \in ActiveIn("awaiting_pdf") : t.condensingLevel # NoLevel

\* the step creates no book and leaves the pipeline as it is
NoBookCreated ==
  /\ session'.books = session.books
  /\ UNCHANGED <<book, finalPdf, queue, pcBot, pc, chat>>

C37_NoExpiredSession ==
  [][(Handles("condense") \/ (Handles("document") /\ session'.reply # "pdf_only"))
       => LET stored == GetSession(session.service, session.table)
          IN /\ session'.active # NoSession
                  => session'.active.expiresAt * 1000 >= session.now
             /\ (stored # NoSession /\ stored.expiresAt * 1000 < session.now)
                  => /\ session'.active = NoSession
                     /\ stored \notin session'.table
             /\ (stored # NoSession /\ stored.expiresAt * 1000 >= session.now)
                  => session'.active = stored]_vars

\* at the very millisecond of its expiresAt the session has been returned
\* to the message:document handler
C37_Witness ==
  /\ session.last = "document"
  /\ session.active # NoSession
  /\ session.active.expiresAt * 1000 = session.now
  /\ session.now > 0


\* the book of that id belongs to another user
Foreign(table, id, userId) == \E b \in table : b.id = id /\ b.userId # userId

\* C38: a request of user U on any per-book route for a book of another user
\* is answered exactly as the same request would be if the book did not
\* exist: with 404 and the same body, the book table unchanged and nothing
\* published.
C38_ForeignBookIsNotFound ==
  [][(/\ api'.response.seq # api.response.seq
      /\ Foreign(api.table, api'.response.id, api'.response.caller))
       => LET missing == Route(api'.response.route,
                               {b \in api.table : b.id # api'.response.id},
                               api'.response.id, api'.response.caller)
          IN /\ api'.response.code = 404
             /\ api'.response.code = missing.code
             /\ api'.response.body = missing.body
             /\ api'.response.published = 0
             /\ api'.table = api.table]_vars

\* U's DELETE of a completed book of V has been answered 404 and the book is
\* still stored
C38_Witness ==
  /\ api.response.route = "delete"
  /\ api.response.caller = "U"
  /\ api.response.code = 404
  /\ \E b \in api.table :
       /\ b.id = api.response.id
       /\ b.userId = "V"
       /\ b.status = "completed"


====
